---- MODULE Spec2Model ----
(***************************************************************************)
(* A model of three pieces of the inventory application:                   *)
(*   - the hook useMainMenuItems (the role-filtered navigation builder),   *)
(*   - the action of the workspace general-settings route,                 *)
(*   - the component ImportUsersDialog.                                    *)
(* JavaScript values are tagged records, and strings are sequences of      *)
(* one-character strings, so that template literals, Array.includes and    *)
(* Array.filter are computed as the code computes them.                    *)
(***************************************************************************)
EXTENDS Integers, Sequences, FiniteSets

(* ---------------------------- bounds ----------------------------------- *)
\* longest first/last name drawn for a profile
MaxNameLen == 2
\* organization ids are 1..MaxOrgs
MaxOrgs == 2
\* requests the settings action handles in one behaviour
MaxRequests == 2

(* ------------------------ JavaScript values ---------------------------- *)
Undefined == [t |-> "undefined"]
Null == [t |-> "null"]
Str(s) == [t |-> "string", s |-> s]
Bool(b) == [t |-> "boolean", b |-> b]
TypeError == [t |-> "TypeError"]

Nullish(v) == v.t \in {"undefined", "null"}

\* the truthiness a condition (`if (v)`, `v ? a : b`) tests
Truthy(v) ==
    CASE v.t = "boolean" -> v.b
      [] v.t = "string" -> Len(v.s) > 0
      [] v.t = "object" -> TRUE
      [] OTHER -> FALSE

undefinedText == <<"u","n","d","e","f","i","n","e","d">>
nullText == <<"n","u","l","l">>

\* what `${v}` contributes to a template literal
ToString(v) ==
    CASE v.t = "string" -> v.s
      [] v.t = "undefined" -> undefinedText
      [] v.t = "null" -> nullText
      [] OTHER -> <<>>

\* obj?.field
OptionalMember(obj, field) == IF Nullish(obj) THEN Undefined ELSE obj[field]

\* obj.field: a TypeError on undefined or null
Member(obj, field) == IF Nullish(obj) THEN TypeError ELSE obj[field]

(* --------------------------- the inputs -------------------------------- *)
Repeat(c, n) == [i \in 1..n |-> c]

mail == <<"a","@","b",".","c","o","m">>

Emails == {Undefined, Str(mail)}
FirstNames == {Undefined, Null} \cup {Str(Repeat("J", n)) : n \in 0..MaxNameLen}
LastNames == {Undefined, Null} \cup {Str(Repeat("D", n)) : n \in 0..MaxNameLen}

\* what useUserData() returns: no user yet, or the user's profile
Users ==
    {Undefined} \cup
    {[t |-> "object", email |-> e, firstName |-> f, lastName |-> l] :
        e \in Emails, f \in FirstNames, l \in LastNames}

\* what useUserIsSelfService() returns; Undefined is a missing classification
RoleFlags == {Bool(TRUE), Bool(FALSE), Undefined}

(* ------------------------ the string literals -------------------------- *)
dashboard == <<"d","a","s","h","b","o","a","r","d">>
assets == <<"a","s","s","e","t","s">>
kits == <<"k","i","t","s">>
categories == <<"c","a","t","e","g","o","r","i","e","s">>
tags == <<"t","a","g","s">>
locations == <<"l","o","c","a","t","i","o","n","s">>
calendar == <<"c","a","l","e","n","d","a","r">>
bookings == <<"b","o","o","k","i","n","g","s">>
scanner == <<"s","c","a","n","n","e","r">>
settings == <<"s","e","t","t","i","n","g","s">>
orderTagsUrl == <<"h","t","t","p","s",":","/","/","w","w","w",".","s","h","e","l","f",".","n","u","/","o","r","d","e","r","-","t","a","g","s","?","e","m","a","i","l","=">>
firstNameParam == <<"&","f","i","r","s","t","N","a","m","e","=">>
lastNameParam == <<"&","l","a","s","t","N","a","m","e","=">>

(* ------------------------- useMainMenuItems ---------------------------- *)
VARIABLES
    user,             \* useUserData() of the latest invocation
    isSelfService,    \* useUserIsSelfService() of the latest invocation
    menuItemsTop,     \* the latest invocation's returned menuItemsTop
    menuItemsBottom,  \* the latest invocation's returned menuItemsBottom
    outcome,          \* "none" | "returned" | "threw"
    earlier,          \* history: <<>> or <<one recorded earlier invocation>>
    between           \* history: an invocation with other inputs followed it

menuVars == <<user, isSelfService, menuItemsTop, menuItemsBottom, outcome,
              earlier, between>>

(* --------------------- settings.general: action ------------------------ *)
VARIABLES
    organizations,         \* the organization table: id -> row
    notifications,         \* the notifications sent so far
    handled,               \* requests accepted so far
    pc,                    \* where the request in flight stands
    form,                  \* the submitted form of the request in flight
    currentOrganization,   \* what requirePermission returned
    payload,               \* what parseData returned
    file,                  \* formDataFile.get("image")
    called,                \* the calls the request has made, in order
    reason,                \* the catch block's `reason`
    response,              \* what the action returned
    organizationsAtStart,  \* history: the table when the request arrived
    notificationsAtStart,  \* history: the notifications when it arrived
    updateCall             \* history: the request's call of updateOrganization

settingsVars == <<organizations, notifications, handled, pc, form,
                  currentOrganization, payload, file, called, reason, response,
                  organizationsAtStart, notificationsAtStart, updateCall>>

(* ------------------------- ImportUsersDialog --------------------------- *)
VARIABLES
    isDialogOpen,   \* useState(false)
    selectedFile,   \* useState<File>()
    error,          \* useState<string>("")
    fetcher,        \* useFetcherWithReset(): its state and its data
    location,       \* where navigate() last went
    lastSelection   \* history: the latest file selection and selectedFile before it

dialogVars == <<isDialogOpen, selectedFile, error, fetcher, location, lastSelection>>

vars == <<menuVars, settingsVars, dialogVars>>

\* the array literal of menuItemsTop
TopCatalog ==
    << [icon |-> "graph", to |-> dashboard, title |-> "Dashboard"],
       [icon |-> "asset", to |-> assets, title |-> "Assets"],
       [icon |-> "kit", to |-> kits, title |-> "Kits"],
       [icon |-> "category", to |-> categories, title |-> "Categories"],
       [icon |-> "tag", to |-> tags, title |-> "Tags"],
       [icon |-> "location", to |-> locations, title |-> "Locations"],
       [icon |-> "calendar", to |-> calendar, title |-> "Calendar"],
       [icon |-> "bookings", to |-> bookings, title |-> "Bookings"] >>

\* mutant: the catalog is one array shared by all invocations
SharedTopCatalog == IF outcome = "none" THEN TopCatalog ELSE menuItemsTop

\* `let menuItemsTop = [...]`: a new array on every invocation
NewMenuItemsTop == TopCatalog

\* mutant: an empty-valued parameter for an absent first name
FirstNameSegmentAlways(u) ==
    firstNameParam \o
        (IF Truthy(OptionalMember(u, "firstName"))
         THEN ToString(Member(u, "firstName")) ELSE <<>>)

\* ${user?.firstName ? `&firstName=${user.firstName}` : ""}
FirstNameSegment(u) ==
    IF Truthy(OptionalMember(u, "firstName"))
    THEN firstNameParam \o ToString(Member(u, "firstName"))
    ELSE <<>>

\* ${user?.lastName ? `&lastName=${user.lastName}` : ""}
LastNameSegment(u) ==
    IF Truthy(OptionalMember(u, "lastName"))
    THEN lastNameParam \o ToString(Member(u, "lastName"))
    ELSE <<>>

\* the template literal of the asset-labels entry's `to`
AssetLabelsTo(u) ==
    orderTagsUrl \o ToString(OptionalMember(u, "email"))
        \o FirstNameSegment(u) \o LastNameSegment(u)

\* the array literal of menuItemsBottom
NewMenuItemsBottom(u) ==
    << [icon |-> "asset-label", to |-> AssetLabelsTo(u), title |-> "Asset labels",
        target |-> "_blank", isNew |-> TRUE],
       [icon |-> "scanQR", to |-> scanner, title |-> "QR scanner", end |-> TRUE],
       [icon |-> "settings", to |-> settings, title |-> "Workspace settings",
        end |-> TRUE] >>

\* mutant: the exclusion list without its last key
itemsToRemoveShort == <<dashboard, categories, tags, locations>>

itemsToRemove == <<dashboard, categories, tags, locations, settings>>

\* mutant: a key matches when an excluded key occurs inside it
includesSubstring(list, x) ==
    \E i \in 1..Len(list) :
        \E k \in 0..(Len(x) - Len(list[i])) :
            SubSeq(x, k + 1, k + Len(list[i])) = list[i]

\* Array.prototype.includes on strings: strict equality with some element
includes(list, x) == \E i \in 1..Len(list) : list[i] = x

RECURSIVE spliceLoop(_, _, _)
\* mutant: removal by splice inside an index loop, which skips the element
\* that moves into the removed slot
spliceLoop(items, list, i) ==
    IF i > Len(items) THEN items
    ELSE IF includes(list, items[i].to)
         THEN spliceLoop(SubSeq(items, 1, i - 1) \o SubSeq(items, i + 1, Len(items)),
                         list, i + 1)
         ELSE spliceLoop(items, list, i + 1)

filterSplice(items, list) == spliceLoop(items, list, 1)

RECURSIVE filterPrepend(_, _)
\* mutant: the survivors are collected in reverse
filterPrepend(items, list) ==
    IF items = <<>> THEN <<>>
    ELSE IF includes(list, Head(items).to)
         THEN filterPrepend(Tail(items), list)
         ELSE filterPrepend(Tail(items), list) \o <<Head(items)>>

RECURSIVE filter(_, _)
\* items.filter((item) => !list.includes(item.to)): a new array, in order
filter(items, list) ==
    IF items = <<>> THEN <<>>
    ELSE IF includes(list, Head(items).to)
         THEN filter(Tail(items), list)
         ELSE <<Head(items)>> \o filter(Tail(items), list)

\* mutant: only a flag that is exactly false leaves the menu unfiltered
RestrictedUnlessFalse(ss) == ss # Bool(FALSE)

\* `if (useUserIsSelfService())`
Restricted(ss) == Truthy(ss)

\* one invocation of the hook, with the two hooks it calls as inputs
useMainMenuItems(u, ss) ==
    LET top == NewMenuItemsTop
        bottom == NewMenuItemsBottom(u)
        threw == \E i \in 1..Len(bottom) : bottom[i].to = TypeError
    IN  /\ user' = u
        /\ isSelfService' = ss
        /\ IF threw
           THEN /\ outcome' = "threw"
                /\ UNCHANGED <<menuItemsTop, menuItemsBottom>>
           ELSE /\ outcome' = "returned"
                /\ IF Restricted(ss)
                   THEN /\ menuItemsTop' = filter(top, itemsToRemove)
                        /\ menuItemsBottom' = filter(bottom, itemsToRemove)
                   ELSE /\ menuItemsTop' = top
                        /\ menuItemsBottom' = bottom
        /\ between' = IF earlier = <<>> THEN FALSE
                      ELSE between \/ earlier[1].user # u
                                   \/ earlier[1].isSelfService # ss
        /\ UNCHANGED earlier
        /\ UNCHANGED settingsVars
        /\ UNCHANGED dialogVars

Render == \E u \in Users, ss \in RoleFlags : useMainMenuItems(u, ss)

\* the profiles whose invocations the history keeps
RecordedUsers ==
    {Undefined,
     [t |-> "object", email |-> Str(mail), firstName |-> Undefined,
      lastName |-> Str(Repeat("D", MaxNameLen))],
     [t |-> "object", email |-> Str(mail), firstName |-> Str(Repeat("J", MaxNameLen)),
      lastName |-> Str(Repeat("D", MaxNameLen))]}

\* history: keep the invocation that has just returned, to compare later ones
RecordInvocation ==
    /\ outcome = "returned"
    /\ user \in RecordedUsers
    /\ earlier' = << [user |-> user, isSelfService |-> isSelfService,
                      menuItemsTop |-> menuItemsTop,
                      menuItemsBottom |-> menuItemsBottom] >>
    /\ between' = FALSE
    /\ UNCHANGED <<user, isSelfService, menuItemsTop, menuItemsBottom, outcome>>
    /\ UNCHANGED settingsVars
    /\ UNCHANGED dialogVars

MenuInit ==
    /\ user = Undefined
    /\ isSelfService = Undefined
    /\ menuItemsTop = <<>>
    /\ menuItemsBottom = <<>>
    /\ outcome = "none"
    /\ earlier = <<>>
    /\ between = FALSE

MenuNext == Render \/ RecordInvocation

(* --------------------- settings.general: action ------------------------ *)
Orgs == 1..MaxOrgs

\* a slot that holds nothing yet
None == [none |-> TRUE]

\* the statuses an error can carry
ErrorStatuses == {400, 403, 500}

NoGroups == [selfServiceGroupId |-> "", adminGroupId |-> "", baseUserGroupId |-> ""]
FormGroups == [selfServiceGroupId |-> "g-self", adminGroupId |-> "g-admin",
               baseUserGroupId |-> "g-base"]

\* the forms a request can carry; wellFormed: the schema accepts it
Forms ==
    [id : Orgs, name : {"Acme"}, currency : {"EUR"}, image : {"none", "logo.png"},
     groups : {FormGroups}, wellFormed : BOOLEAN]

\* authSession.userId
SessionUserId == "user-1"

\* `new ShelfError({ cause: null, message: ..., label: "Organization" })`
NotAllowedError ==
    [cause |-> "null", message |-> "You are not allowed to edit this organization.",
     label |-> "Organization"]

\* what an awaited collaborator throws
ThrownBy(step) == [cause |-> step, message |-> "failed", label |-> step]

\* json(error(reason), { status: reason.status })
JsonError(r) == [kind |-> "json", error |-> r, status |-> r.status]

\* the catch block: makeShelfError gives the reason its status
Catch(cause) ==
    /\ \E st \in ErrorStatuses :
          /\ reason' = [cause |-> cause, status |-> st]
          /\ response' = JsonError(reason')
    /\ pc' = "done"

\* the arrival of a POST; the handler starts
Submit ==
    /\ pc \in {"idle", "done"}
    /\ handled < MaxRequests
    /\ handled' = handled + 1
    /\ \E f \in Forms : form' = f
    /\ pc' = "requirePermission"
    /\ currentOrganization' = None
    /\ payload' = None
    /\ file' = None
    /\ called' = <<>>
    /\ reason' = None
    /\ response' = None
    /\ organizationsAtStart' = organizations
    /\ notificationsAtStart' = notifications
    /\ updateCall' = None
    /\ UNCHANGED <<organizations, notifications>>
    /\ UNCHANGED menuVars
    /\ UNCHANGED dialogVars

\* await requirePermission({ ..., generalSettings, update })
RequirePermission ==
    /\ pc = "requirePermission"
    /\ called' = Append(called, "requirePermission")
    /\ \/ /\ \E o \in Orgs :
                currentOrganization' =
                    [id |-> o, enabledSso |-> organizations[o].enabledSso]
          /\ pc' = "parseData"
          /\ UNCHANGED <<reason, response>>
       \/ /\ Catch(ThrownBy("requirePermission"))
          /\ UNCHANGED currentOrganization
    /\ UNCHANGED <<organizations, notifications, handled, form, payload, file,
                   organizationsAtStart, notificationsAtStart, updateCall>>
    /\ UNCHANGED menuVars
    /\ UNCHANGED dialogVars

\* parseData(formData, schema, ...) and the destructuring of the payload
ParseData ==
    /\ pc = "parseData"
    /\ called' = Append(called, "parseData")
    /\ IF form.wellFormed
       THEN /\ payload' = [id |-> form.id, name |-> form.name,
                           currency |-> form.currency,
                           selfServiceGroupId |-> form.groups.selfServiceGroupId,
                           adminGroupId |-> form.groups.adminGroupId,
                           baseUserGroupId |-> form.groups.baseUserGroupId]
            /\ pc' = "checkId"
            /\ UNCHANGED <<reason, response>>
       ELSE /\ Catch(ThrownBy("parseData"))
            /\ UNCHANGED payload
    /\ UNCHANGED <<organizations, notifications, handled, form, currentOrganization,
                   file, organizationsAtStart, notificationsAtStart, updateCall>>
    /\ UNCHANGED menuVars
    /\ UNCHANGED dialogVars

\* mutant: the check compares nothing
IdCheckSkipped(cur, id) == FALSE

\* currentOrganization.id !== id
OtherOrganization(cur, id) == cur.id # id

\* `if (currentOrganization.id !== id) throw new ShelfError(...)`
CheckId ==
    /\ pc = "checkId"
    /\ IF OtherOrganization(currentOrganization, payload.id)
       THEN Catch(NotAllowedError)
       ELSE /\ pc' = "parseMultipart"
            /\ UNCHANGED <<reason, response>>
    /\ UNCHANGED <<organizations, notifications, handled, form, currentOrganization,
                   payload, file, called, organizationsAtStart, notificationsAtStart, updateCall>>
    /\ UNCHANGED menuVars
    /\ UNCHANGED dialogVars

\* await unstable_parseMultipartFormData(...); formDataFile.get("image")
ParseMultipart ==
    /\ pc = "parseMultipart"
    /\ called' = Append(called, "parseMultipartFormData")
    /\ \/ /\ file' = form.image
          /\ pc' = "updateOrganization"
          /\ UNCHANGED <<reason, response>>
       \/ /\ Catch(ThrownBy("parseMultipartFormData"))
          /\ UNCHANGED file
    /\ UNCHANGED <<organizations, notifications, handled, form, currentOrganization,
                   payload, organizationsAtStart, notificationsAtStart, updateCall>>
    /\ UNCHANGED menuVars
    /\ UNCHANGED dialogVars

\* the argument of updateOrganization
UpdateArgs ==
    LET base == [id |-> payload.id, name |-> payload.name, image |-> file,
                 userId |-> SessionUserId, currency |-> payload.currency,
                 ssoDetails |-> None]
    IN  IF currentOrganization.enabledSso
        THEN [base EXCEPT !.ssoDetails =
                 [selfServiceGroupId |-> payload.selfServiceGroupId,
                  adminGroupId |-> payload.adminGroupId,
                  baseUserGroupId |-> payload.baseUserGroupId]]
        ELSE base

\* the table after updateOrganization(args) has written its row
Updated(table, args) ==
    [table EXCEPT ![args.id] =
        [name |-> args.name, currency |-> args.currency, image |-> args.image,
         enabledSso |-> @.enabledSso,
         ssoDetails |-> IF args.ssoDetails = None THEN @.ssoDetails
                        ELSE args.ssoDetails]]

\* mutant: the call is not awaited, so its rejection never reaches the catch
UpdateOrganizationUnawaited ==
    /\ pc = "updateOrganization"
    /\ called' = Append(called, "updateOrganization")
    /\ pc' = "sendNotification"
    /\ \/ /\ organizations' = Updated(organizations, UpdateArgs)
          /\ updateCall' = [args |-> UpdateArgs, completed |-> TRUE]
       \/ /\ updateCall' = [args |-> UpdateArgs, completed |-> FALSE]
          /\ UNCHANGED organizations
    /\ UNCHANGED <<reason, response>>
    /\ UNCHANGED <<notifications, handled, form, currentOrganization, payload, file,
                   organizationsAtStart, notificationsAtStart>>
    /\ UNCHANGED menuVars
    /\ UNCHANGED dialogVars

\* await updateOrganization({...})
UpdateOrganization ==
    /\ pc = "updateOrganization"
    /\ called' = Append(called, "updateOrganization")
    /\ \/ /\ organizations' = Updated(organizations, UpdateArgs)
          /\ updateCall' = [args |-> UpdateArgs, completed |-> TRUE]
          /\ pc' = "sendNotification"
          /\ UNCHANGED <<reason, response>>
       \/ /\ Catch(ThrownBy("updateOrganization"))
          /\ updateCall' = [args |-> UpdateArgs, completed |-> FALSE]
          /\ UNCHANGED organizations
    /\ UNCHANGED <<notifications, handled, form, currentOrganization, payload, file,
                   organizationsAtStart, notificationsAtStart>>
    /\ UNCHANGED menuVars
    /\ UNCHANGED dialogVars

\* sendNotification({...}); return redirect("/settings/general")
SendNotification ==
    /\ pc = "sendNotification"
    /\ called' = called \o <<"sendNotification", "redirect">>
    /\ notifications' = Append(notifications,
                               [title |-> "Workspace updated",
                                senderId |-> SessionUserId])
    /\ response' = [kind |-> "redirect", to |-> "/settings/general"]
    /\ pc' = "done"
    /\ UNCHANGED <<organizations, handled, form, currentOrganization, payload, file,
                   reason, organizationsAtStart, notificationsAtStart, updateCall>>
    /\ UNCHANGED menuVars
    /\ UNCHANGED dialogVars

InitialRow(sso) ==
    [name |-> "Personal", currency |-> "USD", image |-> "none", enabledSso |-> sso,
     ssoDetails |-> IF sso THEN NoGroups ELSE None]

SettingsInit ==
    /\ \E sso \in [Orgs -> BOOLEAN] :
          organizations = [o \in Orgs |-> InitialRow(sso[o])]
    /\ notifications = <<>>
    /\ handled = 0
    /\ pc = "idle"
    /\ form = None
    /\ currentOrganization = None
    /\ payload = None
    /\ file = None
    /\ called = <<>>
    /\ reason = None
    /\ response = None
    /\ organizationsAtStart = organizations
    /\ notificationsAtStart = <<>>
    /\ updateCall = None

SettingsNext ==
    \/ Submit
    \/ RequirePermission
    \/ ParseData
    \/ CheckId
    \/ ParseMultipart
    \/ UpdateOrganization
    \/ SendNotification

(* ------------------------- ImportUsersDialog --------------------------- *)
textCsv == <<"t","e","x","t","/","c","s","v">>
imagePng == <<"i","m","a","g","e","/","p","n","g">>
msExcel == <<"a","p","p","l","i","c","a","t","i","o","n","/","v","n","d",".","m","s","-","e","x","c","e","l">>

File(name, type) == [t |-> "object", name |-> name, type |-> Str(type)]

\* event.target.files?.[0]: no file, or the file the user picked
PickedFiles ==
    {Undefined,
     File("users.csv", textCsv), File("team.csv", textCsv),
     File("logo.png", imagePng), File("sheet.csv", msExcel), File("notes", <<>>)}

InvalidFileType == "Invalid file type. Please select a CSV file."

\* what the import request can return
ImportResults ==
    {[t |-> "object", success |-> Bool(TRUE), error |-> Undefined],
     [t |-> "object", success |-> Bool(FALSE),
      error |-> [t |-> "object", message |-> "Import failed"]],
     [t |-> "object", success |-> Undefined,
      error |-> [t |-> "object", message |-> "Import failed"]]}

\* isFormProcessing(state)
isFormProcessing(state) == state \in {"submitting", "loading"}

\* const disabled = isFormProcessing(fetcher.state)
disabled == isFormProcessing(fetcher.state)

\* a || b
Or(a, b) == IF Truthy(a) THEN a ELSE b

\* the condition of the dialog's body: fetcher.data?.success || true
SuccessCondition == Or(OptionalMember(fetcher.data, "success"), Bool(TRUE))

\* what the open dialog renders: the success panel or the upload form
ShownPanel ==
    IF ~isDialogOpen THEN "none"
    ELSE IF Truthy(SuccessCondition) THEN "success" ELSE "form"

\* <Button disabled={!selectedFile || disabled}>Import now</Button>
ImportDisabled == ~Truthy(selectedFile) \/ disabled

\* fetcher.reset()
Reset(f) == [f EXCEPT !.data = Undefined]

openDialog ==
    /\ isDialogOpen' = TRUE
    /\ UNCHANGED <<selectedFile, error, fetcher, location, lastSelection>>
    /\ UNCHANGED <<menuVars, settingsVars>>

closeDialog ==
    /\ isDialogOpen
    /\ fetcher' = Reset(fetcher)
    /\ isDialogOpen' = FALSE
    /\ UNCHANGED <<selectedFile, error, location, lastSelection>>
    /\ UNCHANGED <<menuVars, settingsVars>>

\* mutant: any picked file passes
NoFilePicked(picked) == Nullish(picked)

\* file?.type !== "text/csv"
NotCsv(picked) == OptionalMember(picked, "type") # Str(textCsv)

\* the handlers are modelled as written; which elements are rendered to fire
\* them is ShownPanel's matter
handleSelectFile(picked) ==
    /\ isDialogOpen
    /\ IF NotCsv(picked)
       THEN /\ error' = InvalidFileType
            /\ UNCHANGED selectedFile
       ELSE /\ error' = ""
            /\ selectedFile' = picked
    /\ lastSelection' = [picked |-> picked, before |-> selectedFile]
    /\ UNCHANGED <<isDialogOpen, fetcher, location>>
    /\ UNCHANGED <<menuVars, settingsVars>>

SelectFile == \E picked \in PickedFiles : handleSelectFile(picked)

goToInvites ==
    /\ isDialogOpen
    /\ location' = "/settings/team/invites"
    /\ fetcher' = Reset(fetcher)
    /\ isDialogOpen' = FALSE
    /\ UNCHANGED <<selectedFile, error, lastSelection>>
    /\ UNCHANGED <<menuVars, settingsVars>>

\* the submission of fetcher.Form by the `Import now` button
SubmitImport ==
    /\ isDialogOpen
    /\ ~ImportDisabled
    /\ fetcher' = [fetcher EXCEPT !.state = "submitting"]
    /\ UNCHANGED <<isDialogOpen, selectedFile, error, location, lastSelection>>
    /\ UNCHANGED <<menuVars, settingsVars>>

\* /api/settings/import-users answers
ImportResponse ==
    /\ fetcher.state = "submitting"
    /\ \E d \in ImportResults : fetcher' = [state |-> "loading", data |-> d]
    /\ UNCHANGED <<isDialogOpen, selectedFile, error, location, lastSelection>>
    /\ UNCHANGED <<menuVars, settingsVars>>

\* the fetcher comes to rest
FetcherIdle ==
    /\ fetcher.state = "loading"
    /\ fetcher' = [fetcher EXCEPT !.state = "idle"]
    /\ UNCHANGED <<isDialogOpen, selectedFile, error, location, lastSelection>>
    /\ UNCHANGED <<menuVars, settingsVars>>

DialogInit ==
    /\ isDialogOpen = FALSE
    /\ selectedFile = Undefined
    /\ error = ""
    /\ fetcher = [state |-> "idle", data |-> Undefined]
    /\ location = "/settings/team"
    /\ lastSelection = None

DialogNext ==
    \/ openDialog
    \/ closeDialog
    \/ SelectFile
    \/ goToInvites
    \/ SubmitImport
    \/ ImportResponse
    \/ FetcherIdle

(* -------------------------- specifications ----------------------------- *)
Init == MenuInit /\ SettingsInit /\ DialogInit

Next == MenuNext \/ SettingsNext \/ DialogNext

Spec == Init /\ [][Next]_vars

\* the hook alone, beside an organization table without SSO
MenuOnlyInit == Init /\ \A o \in Orgs : ~organizations[o].enabledSso

MenuSpec == MenuOnlyInit /\ [][Render]_vars

\* the hook, with one earlier invocation kept for comparison
MenuHistorySpec == MenuOnlyInit /\ [][MenuNext]_vars

\* the settings action alone
SettingsSpec == Init /\ [][SettingsNext]_vars

\* the dialog alone, beside an organization table without SSO
DialogSpec == MenuOnlyInit /\ [][DialogNext]_vars

(* ------------------- properties of useMainMenuItems -------------------- *)
Keys(items) == [i \in 1..Len(items) |-> items[i].to]

KeySet(items) == {items[i].to : i \in 1..Len(items)}

Titles(items) == [i \in 1..Len(items) |-> items[i].title]

StartsWith(s, prefix) ==
    Len(s) >= Len(prefix) /\ SubSeq(s, 1, Len(prefix)) = prefix

\* the first position of character c in s, or 0
IndexOf(s, c) ==
    IF \E i \in 1..Len(s) : s[i] = c
    THEN CHOOSE i \in 1..Len(s) : s[i] = c /\ \A j \in 1..(i - 1) : s[j] # c
    ELSE 0

RECURSIVE Split(_, _)
\* s cut at every character c
Split(s, c) ==
    IF IndexOf(s, c) = 0 THEN <<s>>
    ELSE <<SubSeq(s, 1, IndexOf(s, c) - 1)>>
             \o Split(SubSeq(s, IndexOf(s, c) + 1, Len(s)), c)

\* the part of a URL before its query, and the query's parameters in order
UrlPath(url) ==
    IF IndexOf(url, "?") = 0 THEN url ELSE SubSeq(url, 1, IndexOf(url, "?") - 1)

UrlQuery(url) ==
    IF IndexOf(url, "?") = 0 THEN <<>>
    ELSE SubSeq(url, IndexOf(url, "?") + 1, Len(url))

ParamOf(segment) ==
    IF IndexOf(segment, "=") = 0 THEN [key |-> segment, value |-> <<>>, bare |-> TRUE]
    ELSE [key |-> SubSeq(segment, 1, IndexOf(segment, "=") - 1),
          value |-> SubSeq(segment, IndexOf(segment, "=") + 1, Len(segment)),
          bare |-> FALSE]

UrlParams(url) ==
    LET segments == Split(UrlQuery(url), "&")
    IN  [i \in 1..Len(segments) |-> ParamOf(segments[i])]

ParamKeys(url) == [i \in 1..Len(UrlParams(url)) |-> UrlParams(url)[i].key]

baseUrl == <<"h","t","t","p","s",":","/","/","w","w","w",".","s","h","e","l","f",".","n","u","/","o","r","d","e","r","-","t","a","g","s">>
emailKey == <<"e","m","a","i","l">>
firstNameKey == <<"f","i","r","s","t","N","a","m","e">>
lastNameKey == <<"l","a","s","t","N","a","m","e">>

\* a profile field; a profile that is not loaded has none
Field(u, f) == IF u.t = "object" THEN u[f] ELSE Undefined

\* a field that holds a non-empty string
Present(v) == v.t = "string" /\ v.s # <<>>

SelfService == isSelfService = Bool(TRUE)

Returned == outcome = "returned"

ExcludedKeys == {dashboard, categories, tags, locations, settings}

IsAssetLabels(e) == e.title = "Asset labels" /\ StartsWith(e.to, baseUrl)

\* the asset-labels entry's target in the returned menuItemsBottom
AssetLabelsTarget == menuItemsBottom[1].to

\* C1: for a user who is not self-service (the flag false or missing) the hook
\* returns the whole catalog: the eight top entries and the three bottom
\* entries, in the catalog's order.
C1_FullCatalogUnlessSelfService ==
    (Returned /\ ~SelfService) =>
        /\ Keys(menuItemsTop) = <<dashboard, assets, kits, categories, tags,
                                  locations, calendar, bookings>>
        /\ Titles(menuItemsTop) = <<"Dashboard", "Assets", "Kits", "Categories",
                                    "Tags", "Locations", "Calendar", "Bookings">>
        /\ Len(menuItemsBottom) = 3
        /\ IsAssetLabels(menuItemsBottom[1])
        /\ menuItemsBottom[2].to = scanner
        /\ menuItemsBottom[3].to = settings

C1_Witness ==
    /\ Returned
    /\ isSelfService = Undefined
    /\ user # Undefined
    /\ Len(menuItemsTop) = 8
    /\ Len(menuItemsBottom) = 3

\* C2: for a self-service user no returned entry, top or bottom, has a key
\* among dashboard, categories, tags, locations, settings.
C2_NoExcludedKeyForSelfService ==
    (Returned /\ SelfService) =>
        /\ \A i \in 1..Len(menuItemsTop) : menuItemsTop[i].to \notin ExcludedKeys
        /\ \A i \in 1..Len(menuItemsBottom) : menuItemsBottom[i].to \notin ExcludedKeys

C2_Witness ==
    /\ Returned
    /\ SelfService
    /\ Len(menuItemsTop) > 0
    /\ Len(menuItemsBottom) > 0

FullProfile ==
    /\ Present(Field(user, "email"))
    /\ Present(Field(user, "firstName"))
    /\ Present(Field(user, "lastName"))

\* C3: for a self-service user with a full profile the top menu holds exactly
\* assets, kits, calendar, bookings, and the bottom menu holds the asset-labels
\* entry and the scanner entry but not settings: only a key equal to an
\* excluded key is removed.
C3_SelfServiceMenu ==
    (Returned /\ SelfService /\ FullProfile) =>
        /\ KeySet(menuItemsTop) = {assets, kits, calendar, bookings}
        /\ Len(menuItemsTop) = 4
        /\ \E i \in 1..Len(menuItemsBottom) : IsAssetLabels(menuItemsBottom[i])
        /\ \E i \in 1..Len(menuItemsBottom) :
              /\ menuItemsBottom[i].to = scanner
              /\ menuItemsBottom[i].title = "QR scanner"
        /\ settings \notin KeySet(menuItemsBottom)
        /\ Len(menuItemsBottom) = 2

C3_Witness ==
    /\ Returned
    /\ SelfService
    /\ FullProfile
    /\ \E i \in 1..Len(menuItemsBottom) :
          StartsWith(menuItemsBottom[i].to, baseUrl)

\* the catalog's order, by title
TitleOrder ==
    <<"Dashboard", "Assets", "Kits", "Categories", "Tags", "Locations",
      "Calendar", "Bookings", "Asset labels", "QR scanner", "Workspace settings">>

Rank(e) == CHOOSE r \in 1..Len(TitleOrder) : TitleOrder[r] = e.title

InCatalogOrder(items) ==
    \A i, j \in 1..Len(items) : i < j => Rank(items[i]) < Rank(items[j])

\* C4: the entries that survive keep the catalog's order, and each sequence is
\* filtered on its own: an entry whose key is not excluded stays, whichever
\* excluded keys its sequence holds, and the invocation does not throw.
C4_OrderKeptPerSequence ==
    /\ outcome # "threw"
    /\ Returned =>
        /\ InCatalogOrder(menuItemsTop)
        /\ InCatalogOrder(menuItemsBottom)
        /\ {"Assets", "Kits", "Calendar", "Bookings"}
               \subseteq {menuItemsTop[i].title : i \in 1..Len(menuItemsTop)}
        /\ {"Asset labels", "QR scanner"}
               \subseteq {menuItemsBottom[i].title : i \in 1..Len(menuItemsBottom)}

C4_Witness ==
    /\ Returned
    /\ SelfService
    /\ Len(menuItemsTop) = 4
    /\ Len(menuItemsBottom) = 2
    /\ menuItemsTop[1].to = assets
    /\ menuItemsTop[4].to = bookings

\* C5: filtering what the filter returned changes nothing, for menuItemsTop
\* and for menuItemsBottom.
C5_FilterIdempotent ==
    (Returned /\ SelfService) =>
        /\ filter(menuItemsTop, itemsToRemove) = menuItemsTop
        /\ filter(menuItemsBottom, itemsToRemove) = menuItemsBottom

C5_Witness ==
    /\ Returned
    /\ SelfService
    /\ Len(menuItemsTop) < 8
    /\ Len(menuItemsBottom) < 3
    /\ filter(menuItemsTop, itemsToRemove) = menuItemsTop

ExpectedParamKeys ==
    <<emailKey>>
        \o (IF Present(Field(user, "firstName")) THEN <<firstNameKey>> ELSE <<>>)
        \o (IF Present(Field(user, "lastName")) THEN <<lastNameKey>> ELSE <<>>)

\* C6: the asset-labels target is the order-tags URL with the email parameter,
\* then firstName exactly when the first name is a non-empty string, then
\* lastName exactly when the last name is one, each with the field's value;
\* an absent or empty name gives no parameter.
C6_AssetLabelsParameters ==
    Returned =>
        /\ IsAssetLabels(menuItemsBottom[1])
        /\ UrlPath(AssetLabelsTarget) = baseUrl
        /\ ParamKeys(AssetLabelsTarget) = ExpectedParamKeys
        /\ \A i \in 1..Len(UrlParams(AssetLabelsTarget)) :
              LET p == UrlParams(AssetLabelsTarget)[i]
              IN  /\ ~p.bare
                  /\ p.key = firstNameKey => p.value = Field(user, "firstName").s
                  /\ p.key = lastNameKey => p.value = Field(user, "lastName").s
                  /\ (p.key = emailKey /\ Present(Field(user, "email")))
                         => p.value = Field(user, "email").s

C6_Witness ==
    /\ Returned
    /\ FullProfile
    /\ ParamKeys(AssetLabelsTarget) = <<emailKey, firstNameKey, lastNameKey>>

C6_WitnessNoNames ==
    /\ Returned
    /\ Present(Field(user, "email"))
    /\ Field(user, "firstName") = Str(<<>>)
    /\ Field(user, "lastName") = Null
    /\ ParamKeys(AssetLabelsTarget) = <<emailKey>>

ProfileAbsent == user = Undefined \/ Field(user, "email") = Undefined

\* C7: with the profile absent (no user, or no email) the hook returns and the
\* asset-labels target ends with `email=` and nothing after it.
C7_EmptyEmailWhenProfileAbsent ==
    (outcome # "none" /\ ProfileAbsent) =>
        /\ Returned
        /\ AssetLabelsTarget = orderTagsUrl

\* C7, the part the code keeps: the invocation returns
C7_ReturnsWhenProfileAbsent ==
    (outcome # "none" /\ ProfileAbsent) => Returned

\* C7, what the code puts after `email=` when no user is loaded
C7_UndefinedTextWhenNoUser ==
    (Returned /\ user = Undefined) =>
        AssetLabelsTarget = orderTagsUrl \o <<"u","n","d","e","f","i","n","e","d">>

SameInputsAsEarlier ==
    /\ earlier # <<>>
    /\ Returned
    /\ earlier[1].user = user
    /\ earlier[1].isSelfService = isSelfService

\* C8: an invocation returns the sequences an earlier invocation with the same
\* profile and flag returned, whatever was invoked in between.
C8_SameInputsSameMenus ==
    SameInputsAsEarlier =>
        /\ earlier[1].menuItemsTop = menuItemsTop
        /\ earlier[1].menuItemsBottom = menuItemsBottom

C8_Witness ==
    /\ SameInputsAsEarlier
    /\ between
    /\ ~SelfService

\* C9: whatever was invoked before, self-service or not, an invocation for a
\* user who is not self-service returns all eight top and all three bottom
\* entries.
C9_CatalogNotConsumed ==
    (Returned /\ ~SelfService) =>
        /\ Len(menuItemsTop) = 8
        /\ Len(menuItemsBottom) = 3
        /\ ExcludedKeys \subseteq (KeySet(menuItemsTop) \cup KeySet(menuItemsBottom))

C9_Witness ==
    /\ earlier # <<>>
    /\ earlier[1].isSelfService = Bool(TRUE)
    /\ Len(earlier[1].menuItemsTop) = 4
    /\ Returned
    /\ ~SelfService
    /\ Len(menuItemsTop) = 8

(* ----------------- properties of the settings action ------------------- *)
Called(step) == \E i \in 1..Len(called) : called[i] = step

IdsDiffer ==
    /\ currentOrganization # None
    /\ payload # None
    /\ payload.id # currentOrganization.id

\* C10: updateOrganization is called only after requirePermission returned,
\* the payload passed the schema and its id is the current organization's;
\* when the id differs the action returns the error as JSON with the error's
\* status, and it updates no organization, sends no notification and does not
\* redirect.
C10_OnlyCurrentOrganization ==
    /\ Called("updateOrganization") =>
          /\ currentOrganization # None
          /\ Called("requirePermission")
          /\ form.wellFormed
          /\ payload # None
          /\ payload.id = currentOrganization.id
    /\ (IdsDiffer /\ pc \notin {"checkId"}) =>
          /\ pc = "done"
          /\ response # None
          /\ response.kind = "json"
          /\ response.error = reason
          /\ response.status = reason.status
          /\ reason.cause = NotAllowedError
          /\ organizations = organizationsAtStart
          /\ notifications = notificationsAtStart
          /\ ~Called("updateOrganization")
          /\ ~Called("sendNotification")
          /\ ~Called("redirect")

C10_Witness ==
    /\ IdsDiffer
    /\ pc = "done"
    /\ response.kind = "json"
    /\ handled = MaxRequests
    /\ organizations # [o \in Orgs |-> InitialRow(organizations[o].enabledSso)]

\* the action's calls, in the order of its text
StepOrder ==
    <<"requirePermission", "parseData", "parseMultipartFormData",
      "updateOrganization", "sendNotification", "redirect">>

Failed == reason # None

\* C11: the calls of a request are made in the order requirePermission,
\* parseData, (id check), parseMultipartFormData, updateOrganization,
\* sendNotification, redirect; a failure ends the request at the failing step
\* with the error returned as JSON; the notification "Workspace updated" and
\* the redirect to /settings/general come only after updateOrganization
\* completed; the SSO group ids are passed exactly when the organization has
\* enabledSso.
C11_StepsInOrder ==
    /\ Len(called) <= Len(StepOrder)
    /\ called = SubSeq(StepOrder, 1, Len(called))
    /\ Called("parseMultipartFormData") =>
          /\ payload # None
          /\ payload.id = currentOrganization.id
    /\ Failed =>
          /\ pc = "done"
          /\ response.kind = "json"
          /\ response.error = reason
          /\ response.status = reason.status
          /\ ~Called("sendNotification")
          /\ ~Called("redirect")
          /\ notifications = notificationsAtStart
          /\ reason.cause # NotAllowedError =>
                called[Len(called)] = reason.cause.cause
          /\ reason.cause = NotAllowedError =>
                called = <<"requirePermission", "parseData">>
    /\ pc = "done" => response.kind \in {"json", "redirect"}
    /\ (Called("sendNotification") \/ Called("redirect")
            \/ notifications # notificationsAtStart
            \/ (response # None /\ response.kind = "redirect")) =>
          /\ ~Failed
          /\ updateCall # None
          /\ updateCall.completed
          /\ organizations = Updated(organizationsAtStart, updateCall.args)
          /\ called = StepOrder
          /\ response = [kind |-> "redirect", to |-> "/settings/general"]
          /\ notifications =
                Append(notificationsAtStart,
                       [title |-> "Workspace updated", senderId |-> SessionUserId])
    /\ updateCall # None =>
          /\ updateCall.args.id = currentOrganization.id
          /\ (updateCall.args.ssoDetails # None)
                <=> organizationsAtStart[updateCall.args.id].enabledSso
          /\ updateCall.args.ssoDetails # None =>
                updateCall.args.ssoDetails = form.groups

C11_Witness ==
    /\ pc = "done"
    /\ called = StepOrder
    /\ response.kind = "redirect"
    /\ updateCall.args.ssoDetails = FormGroups
    /\ Len(notifications) = MaxRequests

C11_WitnessFailedUpdate ==
    /\ Failed
    /\ updateCall # None
    /\ ~updateCall.completed
    /\ response.kind = "json"
    /\ ~organizationsAtStart[updateCall.args.id].enabledSso

(* ---------------- properties of ImportUsersDialog ---------------------- *)
ImportSucceeded ==
    /\ fetcher.data # Undefined
    /\ fetcher.data.success = Bool(TRUE)

\* C12: an open dialog shows the success panel only when the import request
\* has returned success; in every other state it shows the upload form.
C12_SuccessPanelOnlyAfterSuccess ==
    isDialogOpen =>
        /\ ShownPanel = "success" <=> ImportSucceeded
        /\ ~ImportSucceeded => ShownPanel = "form"

\* C12, what the code does: an open dialog always shows the success panel
C12_SuccessPanelAlways == isDialogOpen => ShownPanel = "success"

\* C13: selectedFile is unset or a text/csv file; the `Import now` button is
\* enabled only with selectedFile set and the fetcher at rest; a selection that
\* is not a CSV file (or no file) sets the error and leaves selectedFile as it
\* was, and a CSV selection clears the error and becomes selectedFile.
C13_OnlyCsvSelected ==
    /\ selectedFile = Undefined \/ selectedFile.type = Str(textCsv)
    /\ ~ImportDisabled =>
          /\ selectedFile # Undefined
          /\ fetcher.state \notin {"submitting", "loading"}
    /\ lastSelection # None =>
          IF lastSelection.picked # Undefined
                /\ lastSelection.picked.type = Str(textCsv)
          THEN /\ error = ""
               /\ selectedFile = lastSelection.picked
          ELSE /\ error = "Invalid file type. Please select a CSV file."
               /\ selectedFile = lastSelection.before

C13_Witness ==
    /\ lastSelection # None
    /\ lastSelection.picked = File("logo.png", imagePng)
    /\ lastSelection.before = File("team.csv", textCsv)
    /\ selectedFile = File("team.csv", textCsv)
    /\ error # ""
    /\ ~ImportDisabled

C13_WitnessReplaced ==
    /\ lastSelection # None
    /\ lastSelection.picked = File("users.csv", textCsv)
    /\ lastSelection.before = File("team.csv", textCsv)
    /\ selectedFile = File("users.csv", textCsv)
    /\ error = ""
    /\ fetcher.state = "submitting"
    /\ ImportDisabled
====
